---- MODULE Spec2Model ----
(***************************************************************************)
(* Grid-world MDP of dupo2/MDP_LD3: the environment (GridWorldMDP), the    *)
(* feature extractor of the approximate Q-learning agent and the greedy    *)
(* rollout, modelled from the Python sources.                              *)
(*                                                                         *)
(* Encoding of Python values:                                              *)
(*   position (x, y)            the tuple <<x, y>>                         *)
(*   box_statuses (b0, b1, ..)  the sequence <<b0, b1, ..>>; Python index  *)
(*                              i is TLA+ index i + 1                      *)
(*   state                      <<position, box_statuses>>                 *)
(*   None                       the empty tuple <<>>                       *)
(*   an int used as a dict key  the 1-tuple <<i>>, so that it can be       *)
(*                              compared with a position (never equal)     *)
(*   a distance (Optional[int]) the 1-tuple <<d>>, or None                 *)
(*   floats 1.0 / 0.0, rewards  integers                                   *)
(*   random.random(), intended_action_prob   tenths                        *)
(***************************************************************************)
EXTENDS Integers, Sequences, FiniteSets, TLC

VARIABLES
    grid_size,             \* GridWorldMDP.grid_size
    obstacles,             \* GridWorldMDP.obstacles
    boxes,                 \* GridWorldMDP.boxes: position -> box index (0-based)
    intended_action_prob,  \* GridWorldMDP.intended_action_prob, in tenths
    state,                 \* current_state of the running episode / rollout
    last_pos,              \* last_pos of the running episode / rollout
    call,                  \* the most recent GridWorldMDP.step call and its result
    total_reward,          \* simulate_path: total_reward
    path,                  \* simulate_path: path
    bfs_cache,             \* FeatureExtractor.bfs_cache
    query,                 \* the most recent get_path_distance call and its result
    feat,                  \* the most recent get_features call and its result
    weights,               \* ApproxQLearningAgent.weights
    returned,              \* simulate_path has returned path
    gamma,                 \* the agent's gamma, in tenths
    theta,                 \* ValueIterationAgent.theta
    V,                     \* ValueIterationAgent.V
    delta,                 \* _run_value_iteration: delta of the last sweep
    policy,                \* ValueIterationAgent.policy
    vi_pc,                 \* where ValueIterationAgent.solve is
    placement,             \* the most recent call of a placement generator
    alpha,                 \* the learning agent's alpha, in tenths
    train,                 \* main's training loop: phase, episode, step
    chosen,                \* the most recent choose_action call
    learned,               \* the most recent learn call of either agent
    Q                      \* QLearningAgent.Q

vars == <<grid_size, obstacles, boxes, intended_action_prob, state, last_pos,
          call, total_reward, path, bfs_cache, query, feat, weights, returned,
          gamma, theta, V, delta, policy, vi_pc, placement, alpha, train,
          chosen, learned, Q>>

\* The oracle's cache and the records of the feature pipeline's calls.
pipeline == <<bfs_cache, query, feat>>

\* The ValueIterationAgent.
solver == <<gamma, theta, V, delta, policy, vi_pc>>

\* The variables of simulate_path other than current_state and last_pos.
rollout == <<total_reward, path, returned>>

config == <<grid_size, obstacles, boxes, intended_action_prob>>

\* The record of the placement generators' calls.
generators == <<placement>>

\* The training loop and the learning agents, their weights apart.
learning == <<alpha, train, chosen, learned, Q>>

(***************************************************************************)
(* Bounds of the model.                                                    *)
(***************************************************************************)
MaxGrid == 2
MaxObstacles == 1
MaxBoxes == 2
MaxSimSteps == 4
MaxOracleGrid == 3
MaxOracleObstacles == 2
MaxQueries == 1
MaxWeight == 1
MaxEpisodes == 2
MaxTrainSteps == 2
MaxLearns == 2
MaxPlaceGrid == 2
MaxPlaceCount == 4

(***************************************************************************)
(* Rewards hard-coded in GridWorldMDP.step.                                *)
(***************************************************************************)
TerminalBonus == 500
CollectReward == 100
StuckPenalty == 0 - 10
StepCost == 0 - 5

None == <<>>

\* gamma: float = 0.9 (ValueIterationAgent.__init__), in tenths.
DefaultGamma == 9

\* epsilon_start, epsilon_end, epsilon_decay (main.py, line 90), in
\* ten-thousandths.
EpsilonStart == 10000
EpsilonEnd == 500
EpsilonDecay == 9996

\* Outcomes of random.random() in choose_action, in ten-thousandths: below
\* and above the epsilon of the second episode.
ExploreDraws == {0, 9998}

\* float('inf') (get_features, lines 71 and 78): larger than every distance.
Infinity == 1000000

\* random.random() returns a float in [0.0, 1.0): the outcomes 0.0, 0.5, 0.9.
RandomValues == {0, 5, 9}

\* intended_action_prob: 0.8 in main.py, 1.0 by default; in tenths.
Probs == {8, 10}

actions == <<"up", "down", "left", "right">>

Actions == {actions[i] : i \in DOMAIN actions}

\* Variant: the first alternative of a vertical move is its reverse.
perpendicular_actions_reverse ==
    [a \in Actions |->
        CASE a = "up" -> <<"down", "right">>
          [] a = "down" -> <<"up", "right">>
          [] OTHER -> <<"up", "down">>]

perpendicular_actions ==
    [a \in Actions |->
        IF a \in {"up", "down"} THEN <<"left", "right">> ELSE <<"up", "down">>]

\* Variant: the y axis points down.
move_map_y_down ==
    [a \in Actions |->
        CASE a = "up" -> <<0, 0 - 1>>
          [] a = "down" -> <<0, 1>>
          [] a = "left" -> <<0 - 1, 0>>
          [] a = "right" -> <<1, 0>>]

move_map ==
    [a \in Actions |->
        CASE a = "up" -> <<0, 1>>
          [] a = "down" -> <<0, 0 - 1>>
          [] a = "left" -> <<0 - 1, 0>>
          [] a = "right" -> <<1, 0>>]

Cells(g) == (1 .. g) \X (1 .. g)

is_terminal(s) == \A i \in DOMAIN s[2] : s[2][i]

\* Variant: the deterministic flag is ignored.
actual_action_of_ignoring_flag(action, deterministic, rnd, choice) ==
    IF rnd > intended_action_prob
    THEN perpendicular_actions[action][choice]
    ELSE action

\* The action actually executed (step, lines 53-55).
actual_action_of(action, deterministic, rnd, choice) ==
    IF ~deterministic /\ rnd > intended_action_prob
    THEN perpendicular_actions[action][choice]
    ELSE action

\* The candidate position of a move (step, lines 58-60).
next_position_of(position, actual_action) ==
    <<position[1] + move_map[actual_action][1],
      position[2] + move_map[actual_action][2]>>

\* Variant: only the grid bounds block a move.
is_stuck_at_bounds_only(next_position) ==
    ~(1 <= next_position[1] /\ next_position[1] <= grid_size
      /\ 1 <= next_position[2] /\ next_position[2] <= grid_size)

\* The stuck test (step, line 67).
is_stuck_at(next_position) ==
    \/ ~(1 <= next_position[1] /\ next_position[1] <= grid_size
         /\ 1 <= next_position[2] /\ next_position[2] <= grid_size)
    \/ next_position \in obstacles

\* The position after the move (step, lines 66-72).
final_position_of(position, next_position) ==
    IF is_stuck_at(next_position) THEN position ELSE next_position

\* Whether the move collects a box (step, lines 76-84).
just_collected_a_box_at(final_position, box_statuses) ==
    /\ final_position \in DOMAIN boxes
    /\ ~box_statuses[boxes[final_position] + 1]

\* Variant: the status list is never updated.
new_box_statuses_of_unchanged(final_position, box_statuses) == box_statuses

\* Variant: collecting a box starts from a fresh all-False status list.
new_box_statuses_of_fresh(final_position, box_statuses) ==
    IF just_collected_a_box_at(final_position, box_statuses)
    THEN [i \in DOMAIN box_statuses |-> i = boxes[final_position] + 1]
    ELSE box_statuses

\* The box statuses after the move (step, lines 75-84).
new_box_statuses_of(final_position, box_statuses) ==
    IF just_collected_a_box_at(final_position, box_statuses)
    THEN [box_statuses EXCEPT ![boxes[final_position] + 1] = TRUE]
    ELSE box_statuses

\* Variant: a blocked move costs the ordinary step cost.
reward_of_no_stuck_penalty(just_collected_a_box, is_stuck, next_state) ==
    IF just_collected_a_box
    THEN (IF is_terminal(next_state) THEN TerminalBonus ELSE CollectReward)
    ELSE StepCost

\* Variant: the stuck test comes before the collection test.
reward_of_stuck_first(just_collected_a_box, is_stuck, next_state) ==
    IF is_stuck THEN StuckPenalty
    ELSE IF just_collected_a_box
    THEN (IF is_terminal(next_state) THEN TerminalBonus ELSE CollectReward)
    ELSE StepCost

\* The reward of a move (step, lines 90-98).
reward_of(just_collected_a_box, is_stuck, next_state) ==
    IF just_collected_a_box
    THEN (IF is_terminal(next_state) THEN TerminalBonus ELSE CollectReward)
    ELSE IF is_stuck THEN StuckPenalty
    ELSE StepCost

\* GridWorldMDP.step from a non-terminal state (lines 50-98); rnd and choice
\* are the outcomes of random.random() and random.choice.
step_move(s, action, deterministic, rnd, choice) ==
    LET position == s[1]
        box_statuses == s[2]
        actual_action == actual_action_of(action, deterministic, rnd, choice)
        next_position == next_position_of(position, actual_action)
        is_stuck == is_stuck_at(next_position)
        final_position == final_position_of(position, next_position)
        just_collected_a_box ==
            just_collected_a_box_at(final_position, box_statuses)
        next_state ==
            <<final_position, new_box_statuses_of(final_position, box_statuses)>>
    IN  [next_state |-> next_state,
         reward |-> reward_of(just_collected_a_box, is_stuck, next_state),
         actual_action |-> actual_action]

\* Variant: no test for a terminal state.
step_not_absorbing(s, action, deterministic, rnd, choice) ==
    step_move(s, action, deterministic, rnd, choice)

\* GridWorldMDP.step (lines 45-98).  In a terminal state no action is
\* executed: actual_action is "none".
step(s, action, deterministic, rnd, choice) ==
    IF is_terminal(s)
    THEN [next_state |-> s, reward |-> 0, actual_action |-> "none"]
    ELSE step_move(s, action, deterministic, rnd, choice)

(***************************************************************************)
(* FeatureExtractor, built in main.py from the same grid_size, boxes and   *)
(* obstacles as the environment.                                           *)
(***************************************************************************)
\* FeatureExtractor.box_locations = {v: k for k, v in boxes_data.items()}:
\* box index -> position.  The keys are ints.
box_locations ==
    [k \in {<<boxes[p]>> : p \in DOMAIN boxes} |->
        CHOOSE p \in DOMAIN boxes : boxes[p] = k[1]]

\* FeatureExtractor.num_boxes (main.py, line 75).
num_boxes == Cardinality(DOMAIN boxes)

\* box_statuses[box_id]
box_status_at(box_statuses, box_id) == box_statuses[box_id[1] + 1]

\* get_features: next_pos (lines 53-55).
feature_next_pos(s, action) ==
    <<s[1][1] + move_map[action][1], s[1][2] + move_map[action][2]>>

\* Variant: only the bounds of the grid make a collision.
is_collision_bounds_only(s, action) ==
    LET next_pos == feature_next_pos(s, action)
    IN  IF ~(1 <= next_pos[1] /\ next_pos[1] <= grid_size
             /\ 1 <= next_pos[2] /\ next_pos[2] <= grid_size)
        THEN 1 ELSE 0

\* get_features, feature 2: is_collision (lines 63-64).
is_collision(s, action) ==
    LET next_pos == feature_next_pos(s, action)
    IN  IF \/ ~(1 <= next_pos[1] /\ next_pos[1] <= grid_size
                /\ 1 <= next_pos[2] /\ next_pos[2] <= grid_size)
           \/ next_pos \in obstacles
        THEN 1 ELSE 0

\* get_features, feature 4: is_box_collected (lines 91-96).  The test
\* "next_pos in self.box_locations" looks a position up among the keys of
\* box_locations.
is_box_collected(s, action) ==
    LET next_pos == feature_next_pos(s, action)
    IN  IF next_pos \in DOMAIN box_locations /\ is_collision(s, action) = 0
        THEN (IF ~box_status_at(s[2], box_locations[next_pos]) THEN 1 ELSE 0)
        ELSE 0

\* Variant: the current position is compared with last_pos.
is_reversal_of_current(s, action, lp) ==
    IF lp # None /\ s[1] = lp THEN 1 ELSE 0

\* get_features, feature 5: is_reversal (lines 99-102).
is_reversal(s, action, lp) ==
    IF lp # None /\ feature_next_pos(s, action) = lp THEN 1 ELSE 0

(***************************************************************************)
(* The shortest-path oracle: FeatureExtractor._bfs and get_path_distance.  *)
(***************************************************************************)
\* LET x == e IN F(x), with e evaluated once however often F uses x.
With(e, F(_)) == CHOOSE y \in {F(x) : x \in {e}} : TRUE

\* The neighbour offsets in the order of the loop of _bfs (line 27).
bfs_offsets == <<<<0, 1>>, <<0, 0 - 1>>, <<1, 0>>, <<0 - 1, 0>>>>

\* The neighbours of a popped cell, in loop order.
bfs_neighbours(p) ==
    [i \in 1 .. 4 |-> <<p[1] + bfs_offsets[i][1], p[2] + bfs_offsets[i][2]>>]

\* Variant: obstacles do not stop the search.
bfs_admits_through_obstacles(next_pos, visited) ==
    /\ 1 <= next_pos[1] /\ next_pos[1] <= grid_size
    /\ 1 <= next_pos[2] /\ next_pos[2] <= grid_size
    /\ next_pos \notin visited

\* Lines 31-32: the test that lets a neighbour into the queue.
bfs_admits(next_pos, visited) ==
    /\ 1 <= next_pos[1] /\ next_pos[1] <= grid_size
    /\ 1 <= next_pos[2] /\ next_pos[2] <= grid_size
    /\ next_pos \notin obstacles
    /\ next_pos \notin visited

\* The inner for loop of _bfs from offset i on (lines 27-34): the queue and
\* the visited set after it, or the distance returned from inside it.
RECURSIVE bfs_expand(_, _, _, _, _, _)
bfs_expand(i, p, dist, queue, visited, end_pos) ==
    IF i > 4 THEN [returned |-> FALSE, queue |-> queue, visited |-> visited]
    ELSE LET next_pos == bfs_neighbours(p)[i]
         IN  IF next_pos = end_pos
             THEN [returned |-> TRUE, value |-> <<dist + 1>>]
             ELSE IF bfs_admits(next_pos, visited)
             THEN bfs_expand(i + 1, p, dist,
                             Append(queue, <<next_pos, dist + 1>>),
                             visited \cup {next_pos}, end_pos)
             ELSE bfs_expand(i + 1, p, dist, queue, visited, end_pos)

\* The while loop of _bfs (lines 25-35).
RECURSIVE bfs_loop(_, _, _)
bfs_loop(queue, visited, end_pos) ==
    IF queue = <<>> THEN None
    ELSE With(bfs_expand(1, Head(queue)[1], Head(queue)[2], Tail(queue),
                         visited, end_pos),
              LAMBDA r : IF r.returned THEN r.value
                         ELSE bfs_loop(r.queue, r.visited, end_pos))

\* Variant: the start cell has to pass the test of lines 31-32 as well.
_bfs_checked_start(start_pos, end_pos) ==
    IF start_pos = end_pos THEN <<0>>
    ELSE IF ~bfs_admits(start_pos, {}) THEN None
    ELSE bfs_loop(<<<<start_pos, 0>>>>, {start_pos}, end_pos)

\* FeatureExtractor._bfs (lines 19-35).
_bfs(start_pos, end_pos) ==
    IF start_pos = end_pos THEN <<0>>
    ELSE bfs_loop(<<<<start_pos, 0>>>>, {start_pos}, end_pos)

\* Python's order on pairs of ints.
tuple_le(a, b) == a[1] < b[1] \/ (a[1] = b[1] /\ a[2] <= b[2])

\* Variant: the key keeps the order of the arguments.
cache_key_ordered(start_pos, end_pos) == <<start_pos, end_pos>>

\* key = tuple(sorted((start_pos, end_pos))) (line 43).
cache_key(start_pos, end_pos) ==
    IF tuple_le(start_pos, end_pos)
    THEN <<start_pos, end_pos>> ELSE <<end_pos, start_pos>>

\* FeatureExtractor.get_path_distance (lines 37-48) on cache: the value
\* returned, the cache afterwards and whether _bfs ran.
get_path_distance(cache, start_pos, end_pos) ==
    LET key == cache_key(start_pos, end_pos)
    IN  IF key \notin DOMAIN cache
        THEN With(_bfs(start_pos, end_pos),
                  LAMBDA d : [value |-> d, cache |-> cache @@ (key :> d),
                              searched |-> TRUE])
        ELSE [value |-> cache[key], cache |-> cache, searched |-> FALSE]

(***************************************************************************)
(* get_features: the progress feature and the whole feature vector.  Every *)
(* operator that queries the oracle takes the cache and returns it.        *)
(***************************************************************************)
\* Line 69: the positions of the uncollected boxes, in index order.
RECURSIVE uncollected_from(_, _)
uncollected_from(i, box_statuses) ==
    IF i >= num_boxes THEN <<>>
    ELSE IF ~box_statuses[i + 1]
    THEN <<box_locations[<<i>>]>> \o uncollected_from(i + 1, box_statuses)
    ELSE uncollected_from(i + 1, box_statuses)

uncollected_boxes(s) == uncollected_from(0, s[2])

\* Lines 73 and 80: [self.get_path_distance(pos, box_pos) for box_pos in ...].
RECURSIVE all_dists_of(_, _, _)
all_dists_of(cache, pos, targets) ==
    IF targets = <<>> THEN [dists |-> <<>>, cache |-> cache]
    ELSE With(get_path_distance(cache, pos, Head(targets)),
              LAMBDA r :
                  With(all_dists_of(r.cache, pos, Tail(targets)),
                       LAMBDA rest : [dists |-> <<r.value>> \o rest.dists,
                                      cache |-> rest.cache]))

\* Lines 74-76 and 81-83: the minimum of the distances that are not None,
\* float('inf') if there is none.
min_reachable(all_dists) ==
    LET reachable_dists == {all_dists[i][1] : i \in {j \in DOMAIN all_dists :
                                                        all_dists[j] # None}}
    IN  IF reachable_dists = {} THEN Infinity
        ELSE CHOOSE d \in reachable_dists : \A e \in reachable_dists : d <= e

\* Lines 71-76.
dist_before_of(cache, s) ==
    IF uncollected_boxes(s) # <<>>
    THEN With(all_dists_of(cache, s[1], uncollected_boxes(s)),
              LAMBDA r : [value |-> min_reachable(r.dists), cache |-> r.cache])
    ELSE [value |-> Infinity, cache |-> cache]

\* Lines 78-83.
dist_after_of(cache, s, action) ==
    IF is_collision(s, action) = 0 /\ uncollected_boxes(s) # <<>>
    THEN With(all_dists_of(cache, feature_next_pos(s, action),
                           uncollected_boxes(s)),
              LAMBDA r : [value |-> min_reachable(r.dists), cache |-> r.cache])
    ELSE [value |-> Infinity, cache |-> cache]

\* Variant: a resulting position as far as the current one counts as closer.
closer_or_equal(dist_after, dist_before) ==
    IF dist_after <= dist_before THEN 1 ELSE 0

\* Line 86.
closer(dist_after, dist_before) ==
    IF dist_after < dist_before THEN 1 ELSE 0

\* get_features, feature 3: gets_closer (lines 69-87).
gets_closer(cache, s, action) ==
    With(dist_before_of(cache, s),
         LAMBDA before :
             With(dist_after_of(before.cache, s, action),
                  LAMBDA after : [value |-> closer(after.value, before.value),
                                  cache |-> after.cache]))

\* get_features (lines 50-104).
get_features(cache, s, action, lp) ==
    With(gets_closer(cache, s, action),
         LAMBDA g : [features |-> <<1, is_collision(s, action), g.value,
                                    is_box_collected(s, action),
                                    is_reversal(s, action, lp)>>,
                     cache |-> g.cache])

(***************************************************************************)
(* ApproxQLearningAgent: the linear Q-value and the greedy choice.         *)
(***************************************************************************)
\* np.zeros(num_features) (line 22).
zeros == <<0, 0, 0, 0, 0>>

\* np.dot(self.weights, features) (line 27).
dot(w, features) ==
    w[1] * features[1] + w[2] * features[2] + w[3] * features[3]
    + w[4] * features[4] + w[5] * features[5]

\* get_q_value (lines 25-27).
get_q_value(cache, s, action, lp) ==
    With(get_features(cache, s, action, lp),
         LAMBDA f : [value |-> dot(weights, f.features), cache |-> f.cache,
                     features |-> f.features])

\* Line 38: the Q-values of the actions from the i-th on, in the order of
\* mdp.actions.
RECURSIVE q_values_from(_, _, _, _)
q_values_from(i, cache, s, lp) ==
    IF i > Len(actions)
    THEN [values |-> <<>>, cache |-> cache, features |-> <<>>]
    ELSE With(get_q_value(cache, s, actions[i], lp),
              LAMBDA q :
                  With(q_values_from(i + 1, q.cache, s, lp),
                       LAMBDA rest : [values |-> <<q.value>> \o rest.values,
                                      cache |-> rest.cache,
                                      features |-> <<q.features>> \o rest.features]))

\* Line 39.
max_q_of(values) ==
    CHOOSE m \in {values[i] : i \in DOMAIN values} :
        \A i \in DOMAIN values : values[i] <= m

\* Line 40: the actions whose Q-value is max_q, in the order of mdp.actions.
best_actions_of(values) ==
    LET max_q == max_q_of(values)
        is_best(a) == \E i \in DOMAIN actions : actions[i] = a /\ values[i] = max_q
    IN  SelectSeq(actions, is_best)

\* get_best_action (lines 37-41).  random.choice returns the element of
\* best_actions at a random index below its length: pick, reduced modulo
\* the length.
get_best_action(cache, s, lp, pick) ==
    With(q_values_from(1, cache, s, lp),
         LAMBDA q :
             With(best_actions_of(q.values),
                  LAMBDA best_actions :
                      [action |-> best_actions[((pick - 1) % Len(best_actions)) + 1],
                       cache |-> q.cache, features |-> q.features]))

(***************************************************************************)
(* ApproxQLearningAgent: choose_action and learn.  Weights and Q-values    *)
(* are floats in the code and integers here; alpha and gamma are in tenths *)
(* and a product with either is rounded to the nearest integer.  Every     *)
(* feature is 0.0 or 1.0.                                                  *)
(***************************************************************************)
\* self.gamma * v (learn, line 55; mdp_agent.py, line 46).
discounted(v) == (gamma * v + 5) \div 10

\* choose_action (lines 30-34); rnd is the outcome of random.random() and
\* pick the index random.choice draws.
choose_action(cache, s, lp, rnd, pick) ==
    IF rnd < train.epsilon
    THEN [action |-> actions[pick], cache |-> cache, explored |-> TRUE]
    ELSE With(get_best_action(cache, s, lp, pick),
              LAMBDA b : [action |-> b.action, cache |-> b.cache,
                          explored |-> FALSE])

\* Variant: the lookahead of the next state keeps last_pos.
next_lookahead_pos_last(s, next_state, lp) == lp

\* Variant: the lookahead of the next state uses the next state's position.
next_lookahead_pos_next(s, next_state, lp) == next_state[1]

\* Lines 46 and 54: the last_pos of the next state's lookahead is
\* current_pos = state[0].
next_lookahead_pos(s, next_state, lp) == s[1]

\* Variant: the target bootstraps from a terminal next state as well.
bootstraps_always(next_state) == TRUE

\* Line 50, negated: the target bootstraps from next_state.
bootstraps(next_state) == ~is_terminal(next_state)

\* target (lines 50-55).
td_target(cache, s, reward, next_state, lp) ==
    IF ~bootstraps(next_state) THEN [value |-> reward, cache |-> cache]
    ELSE With(q_values_from(1, cache, next_state,
                            next_lookahead_pos(s, next_state, lp)),
              LAMBDA q : [value |-> reward + discounted(max_q_of(q.values)),
                          cache |-> q.cache])

\* self.alpha * difference.
scaled_by_alpha(difference) == (alpha * difference + 5) \div 10

\* Variant: every weight moves, whatever its feature.
weight_update_all(w, step_size, features) ==
    [i \in DOMAIN w |-> w[i] + step_size]

\* Line 60: self.weights += self.alpha * difference * np.array(features).
weight_update(w, step_size, features) ==
    [i \in DOMAIN w |-> w[i] + step_size * features[i]]

\* learn (lines 44-60): the weights and the cache afterwards, with the
\* prediction, the target and the features it computed.
learn(cache, s, action, reward, next_state, lp) ==
    With(get_q_value(cache, s, action, lp),
         LAMBDA prediction :
             With(td_target(prediction.cache, s, reward, next_state, lp),
                  LAMBDA target :
                      With(get_features(target.cache, s, action, lp),
                           LAMBDA f :
                               [weights |->
                                    weight_update(
                                        weights,
                                        scaled_by_alpha(target.value
                                                        - prediction.value),
                                        f.features),
                                cache |-> f.cache,
                                prediction |-> prediction.value,
                                target |-> target.value,
                                features |-> f.features])))

(***************************************************************************)
(* Configurations and the state space.                                     *)
(***************************************************************************)
\* generate_random_obstacles: at most MaxObstacles cells of the grid.
ObstacleSets(g) ==
    {S \in SUBSET Cells(g) : Cardinality(S) <= MaxObstacles}

\* generate_random_box_locations: n distinct cells outside the obstacles,
\* the i-th chosen cell mapped to index i (0-based).
BoxPlacements(g, obs) ==
    UNION {
        { [p \in {c[i] : i \in 1 .. n} |-> (CHOOSE i \in 1 .. n : c[i] = p) - 1] :
            c \in {d \in [1 .. n -> Cells(g) \ obs] :
                      \A i, j \in 1 .. n : d[i] = d[j] => i = j} }
        : n \in 1 .. MaxBoxes }

\* The enumerated state space mdp.states: every position outside the
\* obstacles with every goal mask.
States ==
    {<<p, m>> : p \in Cells(grid_size) \ obstacles,
                m \in [1 .. num_boxes -> BOOLEAN]}

NoCall ==
    [called |-> FALSE, state |-> <<>>, action |-> "none", deterministic |-> FALSE,
     actual_action |-> "none", next_state |-> <<>>, reward |-> 0]

NoQuery ==
    [called |-> FALSE, start_pos |-> <<>>, end_pos |-> <<>>, value |-> None,
     searched |-> FALSE]

(***************************************************************************)
(* ValueIterationAgent (mdp_agent.py; value_iteration_agent.py has the     *)
(* same algorithm).  It uses two members of GridWorldMDP that the          *)
(* environment of this repository does not have: the enumerated state      *)
(* space mdp.states and the two-argument transition mdp.step(s, a).  Both  *)
(* are taken from the specification: the states in the order position,     *)
(* then goal mask, and the deterministic transition.  Values are floats in *)
(* the code and integers here; a product with gamma is rounded to the      *)
(* nearest integer, as a float product is rounded to the nearest float.    *)
(***************************************************************************)
\* The k-th state of the enumeration, counting from 0 and obstacle cells
\* included: the position is the major key, the goal mask the minor one.
state_at(k) ==
    <<<<((k \div (2 ^ num_boxes)) \div grid_size) + 1,
        ((k \div (2 ^ num_boxes)) % grid_size) + 1>>,
      [i \in 1 .. num_boxes |-> (k \div (2 ^ (i - 1))) % 2 = 1]>>

\* mdp.states as the loops "for s in self.mdp.states" go through it.
mdp_states ==
    SelectSeq([k \in 1 .. grid_size * grid_size * (2 ^ num_boxes) |->
                  state_at(k - 1)],
              LAMBDA s : s[1] \notin obstacles)

\* self.mdp.step(s, a): the deterministic transition.
mdp_step(s, a) == step(s, a, TRUE, 0, 1)

\* Lines 46 and 66: the one-step lookahead of action a, with the reward and
\* the next state taken from two calls of mdp.step.
action_value(Vf, s, a) ==
    mdp_step(s, a).reward + discounted(Vf[mdp_step(s, a).next_state])

\* The step of src/mdp_environment.py called as the agent calls it, without
\* the deterministic flag, which then has its default False (line 45); the
\* parameter last_state, which the body never reads, is left out.
step_default_flag(s, a, rnd, choice) == step(s, a, FALSE, rnd, choice)

\* The values line 46 can produce with that step: the reward comes from one
\* call and the next state from another, each with its own draw from the
\* random source.
sampled_action_values(Vf, s, a) ==
    {step_default_flag(s, a, r1, c1).reward
     + discounted(Vf[step_default_flag(s, a, r2, c2).next_state]) :
        r1 \in RandomValues, r2 \in RandomValues, c1 \in 1 .. 2, c2 \in 1 .. 2}

\* Lines 45-48.
action_values(Vf, s) ==
    [i \in DOMAIN actions |-> action_value(Vf, s, actions[i])]

\* max(action_values) (line 49).
max_value(values) ==
    CHOOSE m \in {values[i] : i \in DOMAIN values} :
        \A i \in DOMAIN values : values[i] <= m

abs(x) == IF x < 0 THEN 0 - x ELSE x

\* Lines 39-50: the loop over the states from the i-th on, updating V in
\* place; acc holds V and delta, and t the next index, the order, acc and
\* the state s of this iteration.
RECURSIVE sweep_from(_, _, _)
sweep_from(i, order, acc) ==
    IF i > Len(order) THEN acc
    ELSE With(<<i + 1, order, acc, order[i]>>, LAMBDA t :
         IF is_terminal(t[4]) THEN sweep_from(t[1], t[2], t[3])
         ELSE With(With(action_values(t[3].V, t[4]),
                        LAMBDA values : max_value(values)),
                   LAMBDA new :
                       With([V |-> [t[3].V EXCEPT ![t[4]] = new],
                             delta |-> IF abs(t[3].V[t[4]] - new) > t[3].delta
                                       THEN abs(t[3].V[t[4]] - new)
                                       ELSE t[3].delta],
                            LAMBDA next : sweep_from(t[1], t[2], next))))

\* Lines 38-50: one sweep.
sweep(Vf) == With(mdp_states,
                  LAMBDA order : sweep_from(1, order, [V |-> Vf, delta |-> 0]))

\* Variant: the loop ends after the first sweep.
converged_at_once(d) == TRUE

\* Variant: the loop never ends.
converged_never(d) == FALSE

\* Line 52.
converged(d) == d < theta

\* Variant: the last of the maximal elements.
last_max(values) ==
    CHOOSE i \in DOMAIN values :
        /\ values[i] = max_value(values)
        /\ \A j \in DOMAIN values : j > i => values[j] # values[i]

\* max(iterable, key=...) (lines 64-67): the first of the maximal elements.
first_max(values) ==
    CHOOSE i \in DOMAIN values :
        /\ values[i] = max_value(values)
        /\ \A j \in DOMAIN values : j < i => values[j] # values[i]

\* Lines 64-67.
best_action(Vf, s) ==
    With(action_values(Vf, s), LAMBDA values : actions[first_max(values)])

\* _derive_optimal_policy (lines 56-68); an action is the 1-tuple <<a>>.
derived_policy(Vf) ==
    [s \in States |-> IF is_terminal(s) THEN None ELSE <<best_action(Vf, s)>>]

(***************************************************************************)
(* The placement generators, called on their own with any arguments: a     *)
(* grid size, a number of cells, a start position of the grid and a set of *)
(* excluded cells.  An outcome is either the raised ValueError or the      *)
(* returned value, wrapped in a 1-tuple.                                   *)
(***************************************************************************)
\* random.sample(list(S), n): any n distinct elements of S, in any order.
random_sample(S, n) ==
    {c \in [1 .. n -> S] : \A i, j \in 1 .. n : c[i] = c[j] => i = j}

\* Variant: the start position is a candidate as well.
possible_box_locations_with_start(g, obs, start_pos) ==
    {p \in Cells(g) : p \notin obs}

\* possible_locations of generate_random_box_locations (lines 11-14).
possible_box_locations(g, obs, start_pos) ==
    {p \in Cells(g) : p \notin obs /\ p # start_pos}

\* generate_random_box_locations (mdp_environment.py, lines 8-20): the
\* outcomes over every sample.
generate_random_box_locations(g, n, obs, start_pos) ==
    With(possible_box_locations(g, obs, start_pos),
         LAMBDA possible_locations :
             IF Cardinality(possible_locations) < n
             THEN {[raised |-> TRUE, result |-> None]}
             ELSE {[raised |-> FALSE,
                    result |-> <<[p \in {c[i] : i \in 1 .. n} |->
                                    (CHOOSE i \in 1 .. n : c[i] = p) - 1]>>] :
                      c \in random_sample(possible_locations, n)})

\* Variant: the goal cells are candidates as well.
possible_obstacle_locations_with_boxes(g, start_pos, box_locs) ==
    Cells(g) \ {start_pos}

\* possible_locations of generate_random_obstacles (main.py, lines 17-21).
possible_obstacle_locations(g, start_pos, box_locs) ==
    Cells(g) \ ({start_pos} \union box_locs)

\* generate_random_obstacles (main.py, lines 16-26): the outcomes over
\* every sample.
generate_random_obstacles(g, n, start_pos, box_locs) ==
    With(possible_obstacle_locations(g, start_pos, box_locs),
         LAMBDA possible_locations :
             IF Cardinality(possible_locations) < n
             THEN {[raised |-> TRUE, result |-> None]}
             ELSE {[raised |-> FALSE, result |-> <<{c[i] : i \in 1 .. n}>>] :
                      c \in random_sample(possible_locations, n)})

\* No generator has been called.
NoPlacement ==
    [called |-> FALSE, kind |-> "none", grid_size |-> 0, num |-> 0,
     start_pos |-> None, excluded |-> {}, raised |-> FALSE, result |-> None]

\* No learning agent has been constructed and no training has started.
NoTraining ==
    [phase |-> "none", episode |-> 0, step |-> 0, epsilon |-> 0,
     current_epsilon |-> 0, episode_reward |-> 0]

NoChoice == [called |-> FALSE]

NoLearn == [called |-> FALSE]

NoLearning ==
    /\ alpha = 0
    /\ train = NoTraining
    /\ chosen = NoChoice
    /\ learned = NoLearn
    /\ Q = <<>>

\* No ValueIterationAgent has been constructed.
NoSolver ==
    /\ gamma = DefaultGamma
    /\ theta = 1
    /\ V = <<>>
    /\ delta = 0
    /\ policy = <<>>
    /\ vi_pc = "none"

NoFeatures ==
    [called |-> FALSE, action |-> "none", last_pos |-> None, features |-> <<>>]

\* The 4x4 scenario of the specification: obstacles (1,3), (2,1), (3,2), one
\* goal at (2,2).
ScenarioConfig ==
    /\ grid_size = 4
    /\ obstacles = {<<1, 3>>, <<2, 1>>, <<3, 2>>}
    /\ boxes = [p \in {<<2, 2>>} |-> 0]
    /\ intended_action_prob \in Probs

\* A configuration built by the two placement generators.
GeneratedConfig ==
    /\ grid_size \in 2 .. MaxGrid
    /\ obstacles \in ObstacleSets(grid_size)
    /\ boxes \in BoxPlacements(grid_size, obstacles)
    /\ intended_action_prob \in Probs

\* A 3x3 grid that a wall of obstacles splits in two, with goals on either
\* side: obstacles as generate_random_obstacles can place them.
WalledConfig ==
    /\ grid_size = 3
    /\ obstacles = {<<2, 1>>, <<2, 2>>, <<2, 3>>}
    /\ boxes \in BoxPlacements(grid_size, obstacles)
    /\ intended_action_prob \in Probs

\* No step taken and no rollout started.
InitRun ==
    /\ last_pos = None
    /\ call = NoCall
    /\ total_reward = 0
    /\ path = <<>>
    /\ bfs_cache = <<>>
    /\ query = NoQuery
    /\ feat = NoFeatures
    /\ weights = zeros
    /\ returned = FALSE
    /\ NoSolver
    /\ placement = NoPlacement
    /\ NoLearning

\* The environment is used from any state of its state space.
Init ==
    /\ (GeneratedConfig \/ ScenarioConfig)
    /\ state \in States
    /\ InitRun

\* The results step can return, over every outcome of the random source.
Outcomes(s, action, deterministic) ==
    {step(s, action, deterministic, rnd, choice) :
        rnd \in RandomValues, choice \in 1 .. 2}

\* The record of one step call.
CallOf(s, action, deterministic, r) ==
    [called |-> TRUE, state |-> s, action |-> action,
     deterministic |-> deterministic, actual_action |-> r.actual_action,
     next_state |-> r.next_state, reward |-> r.reward]

\* One call of GridWorldMDP.step on the current state, by a caller that
\* tracks last_pos as the training loop does (main.py, lines 106-111).
Step ==
    \E action \in Actions, deterministic \in BOOLEAN :
        \E r \in Outcomes(state, action, deterministic) :
            /\ call' = CallOf(state, action, deterministic, r)
            /\ last_pos' = state[1]
            /\ state' = r.next_state
            /\ UNCHANGED <<config, generators, learning,
                           rollout, pipeline, weights, solver>>

Next == Step

Spec == Init /\ [][Next]_vars

(***************************************************************************)
(* The greedy rollout (ApproxQLearningAgent.simulate_path) on the          *)
(* scenario.  With the initial all-zero weights every action has the       *)
(* maximal Q-value, so get_best_action can return any action.              *)
(***************************************************************************)
ScenarioStart == <<<<1, 1>>, <<FALSE>>>>

InitScenario ==
    /\ ScenarioConfig
    /\ state = ScenarioStart
    /\ last_pos = None
    /\ call = NoCall
    /\ total_reward = 0
    /\ path = <<<<state, "Start", 0>>>>
    /\ bfs_cache = <<>>
    /\ query = NoQuery
    /\ feat = NoFeatures
    /\ weights = zeros
    /\ returned = FALSE
    /\ NoSolver
    /\ placement = NoPlacement
    /\ NoLearning

\* Variant: the loop goes on from a terminal state.
loop_continues_past_terminal(i, current_state) == i < MaxSimSteps

\* Lines 70-73: the loop runs while i < max_steps and current_state is not
\* terminal.  max_steps is MaxSimSteps.
loop_continues(i, current_state) ==
    i < MaxSimSteps /\ ~is_terminal(current_state)

\* Variant: the entry holds the reward of the step alone.
trace_entry_step_reward(next_state, action, reward_so_far, step_reward) ==
    <<next_state, action, step_reward>>

\* Lines 81-82: the entry appended to path.
trace_entry(next_state, action, reward_so_far, step_reward) ==
    <<next_state, action, reward_so_far + step_reward>>

\* Variant: the position of the next state is kept.
next_last_pos_of_next(current_state, next_state) == next_state[1]

\* last_pos = current_state[0] (main.py, line 110; simulate_path, lines 78
\* and 85).
next_last_pos(current_state, next_state) == current_state[1]

\* One iteration of the loop of simulate_path (lines 70-85), which runs once
\* path holds the start entry; i is the number of entries appended so far.
SimulateStep ==
    /\ path # <<>>
    /\ ~returned
    /\ loop_continues(Len(path) - 1, state)
    /\ \E best \in {get_best_action(bfs_cache, state, last_pos, pick) :
                         pick \in 1 .. Len(actions)} :
        LET action == best.action
        IN  \E r \in Outcomes(state, action, TRUE) :
                /\ path' = Append(path, trace_entry(r.next_state, action,
                                                    total_reward, r.reward))
                /\ total_reward' = total_reward + r.reward
                /\ call' = CallOf(state, action, TRUE, r)
                /\ last_pos' = next_last_pos(state, r.next_state)
                /\ state' = r.next_state
                /\ bfs_cache' = best.cache
                /\ feat' = [called |-> TRUE, action |-> actions[Len(actions)],
                            last_pos |-> last_pos,
                            features |-> best.features[Len(actions)]]
                /\ UNCHANGED <<config, generators, learning,
                               query, weights, returned, solver>>

\* Line 87: the loop has ended and path is returned.
SimulateReturn ==
    /\ path # <<>>
    /\ ~returned
    /\ ~loop_continues(Len(path) - 1, state)
    /\ returned' = TRUE
    /\ UNCHANGED <<config, generators, learning,
                   state, last_pos, call, total_reward, path, pipeline,
                   weights, solver>>

NextScenario == SimulateStep \/ SimulateReturn

SpecScenario == InitScenario /\ [][NextScenario]_vars

(***************************************************************************)
(* The greedy rollout from the initial state of main.py, on every          *)
(* configuration whose start cell (1,1) is free and holds no goal, with    *)
(* any weight vector of WeightVectors.  The slip probability plays no part *)
(* in a deterministic rollout and is fixed.                                *)
(***************************************************************************)
\* main.py, lines 52 and 67.
initial_state == <<<<1, 1>>, [i \in 1 .. num_boxes |-> FALSE]>>

\* Weight vectors as training leaves them: the initial zeros, and up to
\* MaxWeight against a collision, for progress and against a reversal.  The
\* bias adds the same amount to every Q-value and the collection feature is
\* 0.0 throughout, so their weights are left at 0.
WeightVectors ==
    {<<0, 0 - w2, w3, 0, 0 - w5>> : w2 \in 0 .. MaxWeight,
                                    w3 \in 0 .. MaxWeight,
                                    w5 \in 0 .. MaxWeight}

InitRollout ==
    /\ (GeneratedConfig \/ ScenarioConfig)
    /\ intended_action_prob = 8
    /\ <<1, 1>> \notin obstacles
    /\ <<1, 1>> \notin DOMAIN boxes
    /\ weights \in WeightVectors
    /\ state = initial_state
    /\ last_pos = None
    /\ call = NoCall
    /\ total_reward = 0
    /\ path = <<<<state, "Start", 0>>>>
    /\ bfs_cache = <<>>
    /\ query = NoQuery
    /\ feat = NoFeatures
    /\ returned = FALSE
    /\ NoSolver
    /\ placement = NoPlacement
    /\ NoLearning

NextRollout == SimulateStep \/ SimulateReturn

SpecRollout == InitRollout /\ [][NextRollout]_vars

\* simulate_path is a sequential loop that nothing suspends: an iteration
\* or the return that can be taken is taken.
SpecRolloutFair == SpecRollout /\ WF_vars(NextRollout)

(***************************************************************************)
(* The oracle queried on its own: a FeatureExtractor without goals on a    *)
(* grid with obstacles, and get_path_distance called with any two          *)
(* positions of the grid, in any order.                                    *)
(***************************************************************************)
InitOracle ==
    /\ grid_size \in 2 .. MaxOracleGrid
    /\ obstacles \in {S \in SUBSET Cells(grid_size) :
                         Cardinality(S) <= MaxOracleObstacles}
    /\ boxes = <<>>
    /\ intended_action_prob = 10
    /\ state = <<<<1, 1>>, <<>>>>
    /\ InitRun

\* One call of get_path_distance; the calls are about at most MaxQueries
\* unordered pairs of positions.
Query ==
    \E start_pos \in Cells(grid_size), end_pos \in Cells(grid_size) :
        LET r == get_path_distance(bfs_cache, start_pos, end_pos)
        IN  /\ Cardinality({{k[1], k[2]} : k \in DOMAIN r.cache}) <= MaxQueries
            /\ bfs_cache' = r.cache
            /\ query' = [called |-> TRUE, start_pos |-> start_pos,
                         end_pos |-> end_pos, value |-> r.value,
                         searched |-> r.searched]
            /\ UNCHANGED <<config, generators, learning,
                           state, last_pos, call, rollout, feat, weights,
                           solver>>

NextOracle == Query

SpecOracle == InitOracle /\ [][NextOracle]_vars

(***************************************************************************)
(* ValueIterationAgent.solve on any configuration, with the default        *)
(* discount or a smaller one and a small or a large threshold; the walled *)
(* grids have one goal, out of reach from the other side of the wall.  The *)
(* slip probability is fixed.                                              *)
(***************************************************************************)
Gammas == {5, DefaultGamma}

Thetas == {1, 20}

\* ValueIterationAgent.__init__ (lines 15-20) and the entry of solve.
InitSolve ==
    /\ (GeneratedConfig \/ ScenarioConfig \/ (WalledConfig /\ num_boxes = 1))
    /\ intended_action_prob = 8
    /\ state = <<<<1, 1>>, [i \in 1 .. num_boxes |-> FALSE]>>
    /\ last_pos = None
    /\ call = NoCall
    /\ total_reward = 0
    /\ path = <<>>
    /\ bfs_cache = <<>>
    /\ query = NoQuery
    /\ feat = NoFeatures
    /\ weights = zeros
    /\ returned = FALSE
    /\ gamma \in Gammas
    /\ theta \in Thetas
    /\ V = [s \in States |-> 0]
    /\ delta = 0
    /\ policy = <<>>
    /\ vi_pc = "iterate"
    /\ placement = NoPlacement
    /\ NoLearning

\* One pass of the loop "while True" of _run_value_iteration (lines 37-53).
RunSweep ==
    /\ vi_pc = "iterate"
    /\ \E r \in {sweep(V)} :
          /\ V' = r.V
          /\ delta' = r.delta
          /\ vi_pc' = IF converged(r.delta) THEN "derive" ELSE "iterate"
    /\ UNCHANGED <<config, generators, learning,
                   state, last_pos, call, rollout, pipeline, weights,
                   gamma, theta, policy>>

\* _derive_optimal_policy (lines 56-68), the last call of solve.
DerivePolicy ==
    /\ vi_pc = "derive"
    /\ policy' = derived_policy(V)
    /\ vi_pc' = "done"
    /\ UNCHANGED <<config, generators, learning,
                   state, last_pos, call, rollout, pipeline, weights,
                   gamma, theta, V, delta>>

NextSolve == RunSweep \/ DerivePolicy

SpecSolve == InitSolve /\ [][NextSolve]_vars

\* solve is sequential code: a sweep or the derivation that can run does.
SpecSolveFair == SpecSolve /\ WF_vars(NextSolve)

(***************************************************************************)
(* The feature pipeline called on its own: get_features on any state of    *)
(* the state space, with any action and with last_pos either None or the   *)
(* cell the action leads to, any number of times with one cache.  The     *)
(* slip probability plays no part in it and is fixed.                      *)
(***************************************************************************)
InitFeatures ==
    /\ (GeneratedConfig \/ ScenarioConfig \/ WalledConfig)
    /\ intended_action_prob = 8
    /\ state \in States
    /\ InitRun

\* One call of get_features.
GetFeatures ==
    \E action \in Actions :
        \E lp \in {None, feature_next_pos(state, action)} :
            LET r == get_features(bfs_cache, state, action, lp)
            IN  /\ bfs_cache' = r.cache
                /\ feat' = [called |-> TRUE, action |-> action, last_pos |-> lp,
                            features |-> r.features]
                /\ UNCHANGED <<config, generators, learning,
                               state, last_pos, call, rollout, query,
                               weights, solver>>

NextFeatures == GetFeatures

SpecFeatures == InitFeatures /\ [][NextFeatures]_vars

(***************************************************************************)
(* Vocabulary of the properties, stated independently of the operators     *)
(* above.                                                                  *)
(***************************************************************************)
AllTrue(m) == \A i \in 1 .. Len(m) : m[i]

TrueCount(m) == Cardinality({i \in 1 .. Len(m) : m[i]})

Delta(a) ==
    CASE a = "up" -> <<0, 1>>
      [] a = "down" -> <<0, 0 - 1>>
      [] a = "left" -> <<0 - 1, 0>>
      [] a = "right" -> <<1, 0>>

Opposite(a) ==
    CASE a = "up" -> "down"
      [] a = "down" -> "up"
      [] a = "left" -> "right"
      [] a = "right" -> "left"

Perpendicular(a) ==
    IF a \in {"up", "down"} THEN {"left", "right"} ELSE {"up", "down"}

Candidate(p, a) == <<p[1] + Delta(a)[1], p[2] + Delta(a)[2]>>

Behind(p, a) == <<p[1] - Delta(a)[1], p[2] - Delta(a)[2]>>

InGrid(p) == p[1] \in 1 .. grid_size /\ p[2] \in 1 .. grid_size

Blocked(p) == ~InGrid(p) \/ p \in obstacles

\* The position an executed action leads to.
Resulting(p, a) == IF Blocked(Candidate(p, a)) THEN p ELSE Candidate(p, a)

\* s stands on the cell of a goal that is not collected in s.
OnUncollectedGoal(s) == s[1] \in DOMAIN boxes /\ ~s[2][boxes[s[1]] + 1]

\* p is the cell of a goal that is not collected in mask m.
UncollectedGoalCell(p, m) == p \in DOMAIN boxes /\ ~m[boxes[p] + 1]

\* The last step call was made on a non-terminal state.
CallMoved == call.called /\ ~AllTrue(call.state[2])

\* The candidate cell of the action executed by the last step call.
CallCandidate == Candidate(call.state[1], call.actual_action)

\* The last step call newly collected a goal.
CallCollected ==
    \E i \in 1 .. Len(call.state[2]) : ~call.state[2][i] /\ call.next_state[2][i]

(***************************************************************************)
(* C1  Terminal absorption: a step call on a state whose goal mask is all  *)
(* True, with any action and either value of the deterministic flag,       *)
(* returns the input state and reward 0, and the run stays in that state.  *)
(***************************************************************************)
C1_TerminalAbsorption ==
    (call.called /\ AllTrue(call.state[2]))
        => /\ call.next_state = call.state
           /\ state = call.state
           /\ call.reward = 0

C1_Witness ==
    /\ call.called
    /\ AllTrue(call.state[2])
    /\ ~call.deterministic
    /\ Len(call.state[2]) = 2

(***************************************************************************)
(* C2  Goal monotonicity: from each step to the next, a goal-mask entry    *)
(* that is True stays True, the mask keeps its length and the number of    *)
(* True entries does not decrease.                                         *)
(***************************************************************************)
C2_GoalMonotonicity ==
    [][/\ Len(state'[2]) = Len(state[2])
       /\ \A i \in 1 .. Len(state[2]) : state[2][i] => state'[2][i]
       /\ TrueCount(state[2]) <= TrueCount(state'[2])]_vars

\* A second goal is collected while the first one is already collected.
C2_Witness ==
    /\ call.called
    /\ CallCollected
    /\ TrueCount(call.state[2]) = 1
    /\ TrueCount(state[2]) = 2

(***************************************************************************)
(* C3  Stuck reward.  As claimed: every step from a non-terminal state     *)
(* whose executed action has its candidate cell outside the grid or in the *)
(* obstacle set returns the stuck penalty.                                 *)
(***************************************************************************)
C3_StuckReward_Original ==
    (CallMoved /\ Blocked(CallCandidate)) => call.reward = StuckPenalty

(***************************************************************************)
(* C3 as amended: a blocked step from a non-terminal state returns the     *)
(* stuck penalty unless the agent stands on the cell of an uncollected     *)
(* goal; there the blocked step collects that goal and returns the         *)
(* collection reward or the terminal bonus.                                *)
(***************************************************************************)
C3_StuckReward ==
    (CallMoved /\ Blocked(CallCandidate))
        => IF OnUncollectedGoal(call.state)
           THEN call.reward \in {CollectReward, TerminalBonus}
           ELSE call.reward = StuckPenalty

\* A move into an obstacle, from a cell that is no uncollected goal.
C3_Witness ==
    /\ CallMoved
    /\ CallCandidate \in obstacles
    /\ ~OnUncollectedGoal(call.state)
    /\ call.reward = StuckPenalty

(***************************************************************************)
(* C4  Stuck position: a step from a non-terminal state leaves the         *)
(* position unchanged when the candidate cell of the executed action is    *)
(* outside the grid or an obstacle, and moves to the candidate otherwise.  *)
(***************************************************************************)
C4_StuckPosition ==
    CallMoved
        => /\ call.actual_action \in Actions
           /\ state[1] = (IF Blocked(CallCandidate)
                          THEN call.state[1] ELSE CallCandidate)

\* A slipped action runs into an obstacle.
C4_Witness ==
    /\ CallMoved
    /\ call.actual_action # call.action
    /\ CallCandidate \in obstacles
    /\ state[1] = call.state[1]

(***************************************************************************)
(* C5  Reward priority: a step from a non-terminal state returns the       *)
(* terminal bonus if it newly collects a goal and ends in a terminal       *)
(* state, else the collection reward if it newly collects a goal, else the *)
(* stuck penalty if the move was blocked, else the step cost; the terminal *)
(* bonus is returned exactly when the returned state is terminal.          *)
(***************************************************************************)
C5_RewardPriority ==
    CallMoved
        => /\ call.reward =
                (IF CallCollected /\ AllTrue(call.next_state[2]) THEN TerminalBonus
                 ELSE IF CallCollected THEN CollectReward
                 ELSE IF Blocked(CallCandidate) THEN StuckPenalty
                 ELSE StepCost)
           /\ (call.reward = TerminalBonus) <=> AllTrue(call.next_state[2])

\* A blocked step that collects a goal, not the last one.
C5_Witness ==
    /\ CallMoved
    /\ Blocked(CallCandidate)
    /\ CallCollected
    /\ call.reward = CollectReward

(***************************************************************************)
(* C6  Collection feature: for every action, feature 4 is 1 exactly when   *)
(* the action is not a collision and its candidate cell is the cell of a   *)
(* goal whose mask entry is False, and 0 otherwise.                        *)
(***************************************************************************)
C6_CollectionFeature ==
    \A a \in Actions :
        is_box_collected(state, a) =
            (IF /\ ~Blocked(Candidate(state[1], a))
                /\ UncollectedGoalCell(Candidate(state[1], a), state[2])
             THEN 1 ELSE 0)

(***************************************************************************)
(* C7  Deterministic execution: when step is called with the deterministic *)
(* flag, or with intended_action_prob = 1.0, the executed action is the    *)
(* intended action, and every outcome of the random source gives the same  *)
(* next state and reward.                                                  *)
(***************************************************************************)
C7_DeterministicExecution ==
    (CallMoved /\ (call.deterministic \/ intended_action_prob = 10))
        => /\ call.actual_action = call.action
           /\ state[1] = Resulting(call.state[1], call.action)
           /\ \A rnd \in RandomValues, choice \in 1 .. 2 :
                LET r == step(call.state, call.action, call.deterministic,
                              rnd, choice)
                IN  r.next_state = call.next_state /\ r.reward = call.reward

\* A deterministic call on an environment that slips in stochastic mode.
C7_Witness ==
    /\ CallMoved
    /\ call.deterministic
    /\ intended_action_prob = 8
    /\ state[1] # call.state[1]

(***************************************************************************)
(* C8  No reverse slip: in stochastic mode the executed action is the      *)
(* intended action or one of the two perpendicular to it, never the        *)
(* opposite one; the returned position is the input position, the cell in  *)
(* the intended direction or a cell in a perpendicular direction, never    *)
(* the cell behind.                                                        *)
(***************************************************************************)
C8_NoReverseSlip ==
    (CallMoved /\ ~call.deterministic)
        => /\ call.actual_action \in {call.action} \cup Perpendicular(call.action)
           /\ call.actual_action # Opposite(call.action)
           /\ state[1] \in {call.state[1], Candidate(call.state[1], call.action)}
                  \cup {Candidate(call.state[1], b) : b \in Perpendicular(call.action)}
           /\ state[1] # Behind(call.state[1], call.action)

\* A slip that moves the agent, with the cell behind free.
C8_Witness ==
    /\ CallMoved
    /\ ~call.deterministic
    /\ call.actual_action \in Perpendicular(call.action)
    /\ state[1] = CallCandidate
    /\ ~Blocked(Behind(call.state[1], call.action))

(***************************************************************************)
(* C9  Scenario.  As claimed: in the rollout from ((1,1),(False,)) on the  *)
(* 4x4 scenario, the deterministic steps right, up reach (2,2) on the      *)
(* second step, which returns the terminal bonus and a terminal state.     *)
(***************************************************************************)
C9_Scenario_Original ==
    (Len(path) >= 3 /\ path[2][2] = "right" /\ path[3][2] = "up")
        => /\ path[3][1][1] = <<2, 2>>
           /\ path[3][3] - path[2][3] = TerminalBonus
           /\ AllTrue(path[3][1][2])

(***************************************************************************)
(* C9 as amended: the deterministic steps up, right reach (2,2) on the     *)
(* second step, which returns the terminal bonus and a terminal state      *)
(* (right is blocked by the obstacle at (2,1)).                            *)
(***************************************************************************)
C9_Scenario ==
    (Len(path) >= 3 /\ path[2][2] = "up" /\ path[3][2] = "right")
        => /\ path[2][1] = <<<<1, 2>>, <<FALSE>>>>
           /\ path[3][1][1] = <<2, 2>>
           /\ path[3][3] - path[2][3] = TerminalBonus
           /\ AllTrue(path[3][1][2])
           /\ Len(path) = 3

C9_Witness ==
    /\ Len(path) = 3
    /\ path[1] = <<ScenarioStart, "Start", 0>>
    /\ path[2][2] = "up"
    /\ path[3][2] = "right"
    /\ call.deterministic

(***************************************************************************)
(* C10  Reversal feature.  As claimed: with a known previous position P,   *)
(* feature 5 is 1 if the position resulting from the action (the candidate *)
(* cell, or the current cell when the move is blocked) equals P, and 0     *)
(* when it differs from P or when P is unknown.                            *)
(***************************************************************************)
C10_ReversalFeature_Original ==
    \A a \in Actions :
        is_reversal(state, a, last_pos) =
            (IF last_pos # None /\ Resulting(state[1], a) = last_pos
             THEN 1 ELSE 0)

(***************************************************************************)
(* C10 as amended: feature 5 is 1 exactly when the previous position P is  *)
(* known and the candidate cell of the action (the current position plus   *)
(* the displacement of the action, whether or not the move is blocked)     *)
(* equals P; it is 0 otherwise, also when a blocked move leaves the agent  *)
(* on P.                                                                   *)
(***************************************************************************)
C10_ReversalFeature ==
    \A a \in Actions :
        is_reversal(state, a, last_pos) =
            (IF last_pos # None /\ Candidate(state[1], a) = last_pos
             THEN 1 ELSE 0)

\* The agent has moved, and one action leads back to the previous position.
C10_Witness ==
    /\ last_pos # None
    /\ last_pos # state[1]
    /\ \E a \in Actions : Candidate(state[1], a) = last_pos

(***************************************************************************)
(* Vocabulary of the oracle properties.                                    *)
(***************************************************************************)
Free(p) == InGrid(p) /\ p \notin obstacles

Adjacent(p, q) ==
    \/ (p[1] = q[1] /\ (p[2] - q[2] = 1 \/ q[2] - p[2] = 1))
    \/ (p[2] = q[2] /\ (p[1] - q[1] = 1 \/ q[1] - p[1] = 1))

Manhattan(p, q) ==
    (IF p[1] >= q[1] THEN p[1] - q[1] ELSE q[1] - p[1])
    + (IF p[2] >= q[2] THEN p[2] - q[2] ELSE q[2] - p[2])

\* The least k >= n such that b is reached from the set reach (the free
\* cells at most n moves away from the start) by moves between free cells.
RECURSIVE HopsFrom(_, _, _)
HopsFrom(reach, n, b) ==
    IF b \in reach THEN <<n>>
    ELSE LET more == reach \cup {q \in Cells(grid_size) :
                                    Free(q) /\ \E p \in reach : Adjacent(p, q)}
         IN  IF more = reach THEN None ELSE HopsFrom(more, n + 1, b)

\* The number of moves of a shortest 4-connected path from a to b that
\* stays inside the grid and visits no obstacle cell; None if there is none.
ShortestPath(a, b) ==
    IF Free(a) /\ Free(b) THEN HopsFrom({a}, 0, b) ELSE None

(***************************************************************************)
(* C11  Shortest-path correctness.  As claimed: for every pair of          *)
(* positions a, b of the grid, get_path_distance(a, b) returns the number  *)
(* of moves of a shortest 4-connected path from a to b that stays inside   *)
(* the grid and visits no obstacle cell, and None exactly when there is no *)
(* such path.                                                              *)
(***************************************************************************)
C11_ShortestPath_Original ==
    query.called
        => query.value = ShortestPath(query.start_pos, query.end_pos)

(***************************************************************************)
(* C12  Distance symmetry: after any sequence of queries, for the pair     *)
(* (a, b) just queried, get_path_distance(a, b) and get_path_distance(b,   *)
(* a) return the value that was returned, which is what a fresh            *)
(* breadth-first search returns for either order; and                      *)
(* get_path_distance(a, a) is 0.                                           *)
(***************************************************************************)
C12_DistanceSymmetry ==
    query.called
        => LET a == query.start_pos
               b == query.end_pos
           IN  /\ get_path_distance(bfs_cache, a, b).value = query.value
               /\ get_path_distance(bfs_cache, b, a).value = query.value
               /\ _bfs(a, b) = query.value
               /\ _bfs(b, a) = query.value
               /\ (a = b => query.value = <<0>>)

\* A query answered from the entry that the reverse query wrote.
C12_Witness ==
    /\ query.called
    /\ ~query.searched
    /\ ~tuple_le(query.start_pos, query.end_pos)
    /\ query.value # None
    /\ query.value[1] > Manhattan(query.start_pos, query.end_pos)

(***************************************************************************)
(* Vocabulary of the feature properties.                                   *)
(***************************************************************************)
UncollectedGoals(m) == {p \in DOMAIN boxes : ~m[boxes[p] + 1]}

\* The true distance from p to the nearest uncollected goal that can be
\* reached from p, as <<d>>; None if there is no such goal.
NearestGoal(p, m) ==
    LET ds == {ShortestPath(p, g)[1] :
                  g \in {h \in UncollectedGoals(m) : ShortestPath(p, h) # None}}
    IN  IF ds = {} THEN None
        ELSE <<CHOOSE d \in ds : \A e \in ds : d <= e>>

\* Action a from state s is not blocked, and leads strictly nearer to the
\* nearest reachable uncollected goal (an unreachable one counts as
\* infinitely far).
MakesProgress(s, a) ==
    LET before == NearestGoal(s[1], s[2])
        after == NearestGoal(Candidate(s[1], a), s[2])
    IN  /\ ~Blocked(Candidate(s[1], a))
        /\ after # None
        /\ (before = None \/ after[1] < before[1])

(***************************************************************************)
(* C19  Progress feature: feature 3 of get_features(state, action, _) is   *)
(* 1.0 exactly when the true shortest-path distance from the resulting     *)
(* position to the nearest reachable uncollected goal is strictly smaller  *)
(* than that from the current position; it is 0.0 when the action          *)
(* collides, when every goal is collected, and when no uncollected goal    *)
(* can be reached from the resulting position.                             *)
(***************************************************************************)
C19_ProgressFeature ==
    feat.called
        => LET f3 == feat.features[3]
               s == state
               a == feat.action
           IN  /\ f3 = (IF MakesProgress(s, a) THEN 1 ELSE 0)
               /\ (Blocked(Candidate(s[1], a)) => f3 = 0)
               /\ (AllTrue(s[2]) => f3 = 0)
               /\ (NearestGoal(Resulting(s[1], a), s[2]) = None => f3 = 0)

\* Progress along a detour: the move goes away from every uncollected goal
\* in straight-line terms and still shortens the true distance.
C19_Witness ==
    /\ feat.called
    /\ feat.features[3] = 1
    /\ \A g \in UncollectedGoals(state[2]) :
          Manhattan(Candidate(state[1], feat.action), g) > Manhattan(state[1], g)

\* A free move from which no uncollected goal can be reached.
C19_WitnessUnreachable ==
    /\ feat.called
    /\ feat.features[3] = 0
    /\ ~Blocked(Candidate(state[1], feat.action))
    /\ ~AllTrue(state[2])
    /\ NearestGoal(Candidate(state[1], feat.action), state[2]) = None

(***************************************************************************)
(* C20  Collision feature agrees with the environment: feature 2 of        *)
(* get_features(state, action, _) is 1.0 exactly when the candidate        *)
(* position is outside the grid or an obstacle cell, that is, exactly when *)
(* the deterministic step of the environment for that action is blocked    *)
(* and leaves the position unchanged.                                      *)
(***************************************************************************)
C20_CollisionFeature ==
    (call.called /\ call.deterministic)
        => LET s == call.state
               f2 == get_features(bfs_cache, s, call.action, last_pos).features[2]
               unchanged == call.next_state[1] = s[1]
           IN  /\ f2 \in {0, 1}
               /\ f2 = 1 <=> Blocked(Candidate(s[1], call.action))
               /\ f2 = 1 => unchanged
               /\ ~AllTrue(s[2]) => (f2 = 1 <=> unchanged)
               /\ ~AllTrue(s[2]) => (f2 = 1 <=> is_stuck_at(CallCandidate))

\* A deterministic step into an obstacle inside the grid.
C20_Witness ==
    /\ call.called /\ call.deterministic
    /\ ~AllTrue(call.state[2])
    /\ InGrid(CallCandidate)
    /\ CallCandidate \in obstacles
    /\ call.next_state[1] = call.state[1]
    /\ is_collision(call.state, call.action) = 1

(***************************************************************************)
(* Vocabulary of the rollout properties.                                   *)
(***************************************************************************)
\* The result of the deterministic transition from s under a.
DeterministicStep(s, a) == step(s, a, TRUE, 0, 1)

Last(p) == p[Len(p)]

\* last_pos as simulate_path holds it when it chooses the action of entry i.
LastPosBefore(i) == IF i = 2 THEN None ELSE path[i - 2][1][1]

(***************************************************************************)
(* C13  Rollout trace structure: the path of simulate_path starts with     *)
(* (start_state, "Start", 0); every later entry (s_i, a_i, r_i) has s_i    *)
(* the next state of the deterministic transition from s_(i-1) under a_i   *)
(* and r_i = r_(i-1) + that transition's reward, so that the last entry's  *)
(* reward is the sum of the step rewards of the rollout.                   *)
(***************************************************************************)
C13_TraceStructure ==
    /\ Len(path) >= 1
    /\ path[1] = <<initial_state, "Start", 0>>
    /\ \A i \in 2 .. Len(path) :
          /\ path[i][2] \in Actions
          /\ path[i][1] = DeterministicStep(path[i - 1][1], path[i][2]).next_state
          /\ path[i][3] = path[i - 1][3]
                          + DeterministicStep(path[i - 1][1], path[i][2]).reward
    /\ Last(path)[3] = total_reward
    /\ Last(path)[1] = state

\* A returned rollout that paid for steps before it collected the last goal.
C13_Witness ==
    /\ returned
    /\ Len(path) >= 3
    /\ path[2][3] < 0
    /\ is_terminal(Last(path)[1])
    /\ Last(path)[3] = path[Len(path) - 1][3] + TerminalBonus

C14_WitnessTerminal ==
    /\ returned
    /\ Len(path) < MaxSimSteps + 1
    /\ Len(path) > 1
    /\ is_terminal(Last(path)[1])

(***************************************************************************)
(* C15  Reproducible greedy choice: the greedy selection breaks ties       *)
(* deterministically, so that for fixed weights two greedy rollouts from   *)
(* the same start state produce identical traces, also when several        *)
(* actions share the maximal Q-value: at every entry of the trace, the     *)
(* action taken is the only action get_best_action could return there.     *)
(***************************************************************************)
C15_ReproducibleGreedyChoice ==
    \A i \in 2 .. Len(path) :
        \A pick \in 1 .. Len(actions) :
            get_best_action(bfs_cache, path[i - 1][1], LastPosBefore(i), pick).action
                = path[i][2]

(***************************************************************************)
(* Vocabulary of the value-iteration properties.                           *)
(***************************************************************************)
\* reward(s, a) + gamma * V(next(s, a)) over the deterministic transition.
Lookahead(s, a) ==
    DeterministicStep(s, a).reward
    + discounted(V[DeterministicStep(s, a).next_state])

\* The largest lookahead of s.
Backup(s) ==
    CHOOSE m \in {Lookahead(s, a) : a \in Actions} :
        \A a \in Actions : Lookahead(s, a) <= m

\* _run_value_iteration has returned.
Converged == vi_pc \in {"derive", "done"}

ActionOrder == <<"up", "down", "left", "right">>

C28_NoStandingOnUncollectedGoal ==
    /\ CallMoved
          => (call.next_state[1] \in DOMAIN boxes
                 => call.next_state[2][boxes[call.next_state[1]] + 1])
    /\ call.called => ~OnUncollectedGoal(state)

\* A blocked move from a start on an uncollected goal: the agent stays on
\* the cell, and the goal is collected by that call.
C28_Witness ==
    /\ CallMoved
    /\ OnUncollectedGoal(call.state)
    /\ call.next_state[1] = call.state[1]
    /\ Blocked(CallCandidate)

\* A move onto the cell of an uncollected goal.
C28_WitnessArrival ==
    /\ CallMoved
    /\ call.next_state[1] # call.state[1]
    /\ UncollectedGoalCell(call.next_state[1], call.state[2])

(***************************************************************************)
(* C29  Position validity: from a state whose position is inside the grid  *)
(* and not an obstacle, every state reached by step calls (any action,     *)
(* deterministic or not) has a position inside the grid and outside the    *)
(* obstacles and a goal mask of the initial length, and differs from its   *)
(* predecessor in at most one mask entry.                                  *)
(***************************************************************************)
C29_PositionValidity ==
    /\ InGrid(state[1])
    /\ state[1] \notin obstacles
    /\ Len(state[2]) = Cardinality(DOMAIN boxes)
    /\ call.called
          => /\ state = call.next_state
             /\ Len(call.next_state[2]) = Len(call.state[2])
             /\ Cardinality({i \in 1 .. Len(call.state[2]) :
                                call.next_state[2][i] # call.state[2][i]}) <= 1

\* A move against an obstacle, and a call that changed one mask entry.
C29_Witness ==
    /\ CallMoved
    /\ CallCandidate \in obstacles

C29_WitnessMaskChange ==
    /\ CallMoved
    /\ call.next_state[2] # call.state[2]

(***************************************************************************)
(* Vocabulary of the cache property.                                       *)
(***************************************************************************)
\* The cache has an entry for the unordered pair of a and b.
PairCached(a, b) == <<a, b>> \in DOMAIN bfs_cache \/ <<b, a>> \in DOMAIN bfs_cache

\* The value stored for the unordered pair of a and b.
StoredValue(a, b) ==
    IF <<a, b>> \in DOMAIN bfs_cache THEN bfs_cache[<<a, b>>]
    ELSE bfs_cache[<<b, a>>]

Reverse(seq) == [i \in 1 .. Len(seq) |-> seq[Len(seq) + 1 - i]]

\* One sweep over the states in the given order, from value function Vf.
SweepIn(order, Vf) == sweep_from(1, order, [V |-> Vf, delta |-> 0])

(***************************************************************************)
(* C25  Sweep order independence: within one sweep the new value of a      *)
(* state does not depend on the order in which the states are processed;   *)
(* from the same value function, two processing orders of the state space  *)
(* give the same value function and the same delta at the end of the       *)
(* sweep.  Stated for the order of mdp.states and its reverse.             *)
(***************************************************************************)
C25_SweepOrderIndependence ==
    vi_pc = "iterate" => SweepIn(Reverse(mdp_states), V) = SweepIn(mdp_states, V)

(***************************************************************************)
(* C24  Deterministic lookahead: for every non-terminal state s and action *)
(* a, the value reward + gamma * V(next) used in a sweep and in policy     *)
(* derivation takes reward and next from one and the same deterministic    *)
(* outcome of the intended action a, whatever intended_action_prob and the *)
(* random source are.  Stated for the step of the environment called       *)
(* without the deterministic flag, as both agents call it.                 *)
(***************************************************************************)
C24_DeterministicLookahead ==
    vi_pc \in {"iterate", "derive"}
        => \A s \in States, a \in Actions :
              ~is_terminal(s) => sampled_action_values(V, s, a) = {Lookahead(s, a)}

(***************************************************************************)
(* A placement generator called on its own.                                *)
(***************************************************************************)
InitPlace ==
    /\ grid_size = 1
    /\ obstacles = {}
    /\ boxes = <<>>
    /\ intended_action_prob = 10
    /\ state = <<<<1, 1>>, <<>>>>
    /\ InitRun

PlacementOf(kind, g, n, start_pos, excluded, r) ==
    [called |-> TRUE, kind |-> kind, grid_size |-> g, num |-> n,
     start_pos |-> start_pos, excluded |-> excluded, raised |-> r.raised,
     result |-> r.result]

\* One call of generate_random_box_locations.
GenerateBoxes ==
    \E g \in 1 .. MaxPlaceGrid, n \in 0 .. MaxPlaceCount :
        \E obs \in SUBSET Cells(g), start_pos \in Cells(g) :
            \E r \in generate_random_box_locations(g, n, obs, start_pos) :
                /\ placement' = PlacementOf("boxes", g, n, start_pos, obs, r)
                /\ UNCHANGED <<config, learning, state, last_pos, call, rollout,
                               pipeline, weights, solver>>

\* One call of generate_random_obstacles.
GenerateObstacles ==
    \E g \in 1 .. MaxPlaceGrid, n \in 0 .. MaxPlaceCount :
        \E box_locs \in SUBSET Cells(g), start_pos \in Cells(g) :
            \E r \in generate_random_obstacles(g, n, start_pos, box_locs) :
                /\ placement' = PlacementOf("obstacles", g, n, start_pos,
                                            box_locs, r)
                /\ UNCHANGED <<config, learning, state, last_pos, call, rollout,
                               pipeline, weights, solver>>

NextPlace == GenerateBoxes \/ GenerateObstacles

SpecPlace == InitPlace /\ [][NextPlace]_vars

(***************************************************************************)
(* Vocabulary of the placement property.                                   *)
(***************************************************************************)
\* The cells of the grid that are neither the start nor excluded.
FreeCandidates ==
    {p \in Cells(placement.grid_size) :
        p # placement.start_pos /\ p \notin placement.excluded}

\* The cells of the returned placement.
PlacedCells ==
    IF placement.kind = "boxes" THEN DOMAIN placement.result[1]
    ELSE placement.result[1]

(***************************************************************************)
(* C23  Placement failure: generate_random_box_locations and               *)
(* generate_random_obstacles raise an error, and return no partial         *)
(* placement, whenever there are fewer free candidate cells than requested *)
(* cells; otherwise they return exactly the requested number of distinct   *)
(* cells, none of them the start position or an excluded cell, and the     *)
(* goal indices are 0..n-1, each used once.                                *)
(***************************************************************************)
C23_PlacementFailure ==
    placement.called
        => IF Cardinality(FreeCandidates) < placement.num
           THEN placement.raised /\ placement.result = None
           ELSE /\ ~placement.raised
                /\ PlacedCells \subseteq FreeCandidates
                /\ Cardinality(PlacedCells) = placement.num
                /\ placement.kind = "boxes"
                      => /\ {placement.result[1][p] : p \in PlacedCells}
                               = 0 .. placement.num - 1
                         /\ \A p, q \in PlacedCells :
                               placement.result[1][p] = placement.result[1][q]
                                   => p = q

\* Goals requested where too few cells are free, with some cell free.
C23_Witness ==
    /\ placement.called
    /\ placement.kind = "boxes"
    /\ placement.raised
    /\ FreeCandidates # {}

\* Obstacles requested where too few cells are free.
C23_WitnessObstacles ==
    /\ placement.called
    /\ placement.kind = "obstacles"
    /\ placement.raised
    /\ FreeCandidates # {}

\* Two or more goals placed, with an excluded cell in the grid.
C23_WitnessPlaced ==
    /\ placement.called
    /\ placement.kind = "boxes"
    /\ ~placement.raised
    /\ placement.num >= 2
    /\ placement.excluded # {}

(***************************************************************************)
(* main.py: the training loop of the ApproxQLearningAgent (lines 96-118)   *)
(* followed by the greedy rollout (line 129).  num_episodes is MaxEpisodes *)
(* and max_steps_per_episode is MaxTrainSteps.  The start cell (1,1) is    *)
(* free and holds no goal.  The grids are the 2x2 ones; actions slip       *)
(* (intended_action_prob 0.8, as in main.py) on the grid with no obstacle  *)
(* and the goal at (2,2), and do not slip (1.0) on the others.             *)
(***************************************************************************)
\* alpha is a constructor argument (0.01 in main.py, line 83); the loop is
\* run with 0.5, in tenths, and with gamma 0.9 (0.99 in main.py, line 82).
Alphas == {5}

InitTrain ==
    /\ GeneratedConfig
    /\ grid_size = 2
    /\ intended_action_prob = 8 => obstacles = {} /\ DOMAIN boxes = {<<2, 2>>}
    /\ <<1, 1>> \notin obstacles
    /\ <<1, 1>> \notin DOMAIN boxes
    /\ state = initial_state
    /\ last_pos = None
    /\ call = NoCall
    /\ total_reward = 0
    /\ path = <<>>
    /\ bfs_cache = <<>>
    /\ query = NoQuery
    /\ feat = NoFeatures
    /\ weights = zeros
    /\ returned = FALSE
    /\ NoSolver
    /\ placement = NoPlacement
    /\ alpha \in Alphas
    /\ train = [phase |-> "episode", episode |-> 0, step |-> 0,
                epsilon |-> EpsilonStart, current_epsilon |-> EpsilonStart,
                episode_reward |-> 0]
    /\ chosen = NoChoice
    /\ learned = NoLearn
    /\ Q = <<>>

\* Line 118: max(epsilon_end, current_epsilon * epsilon_decay).
decayed(current_epsilon) ==
    LET product == (current_epsilon * EpsilonDecay) \div 10000
    IN  IF product > EpsilonEnd THEN product ELSE EpsilonEnd

\* Lines 98-102: an episode starts.
StartEpisode ==
    /\ train.phase = "episode"
    /\ train.episode < MaxEpisodes
    /\ train' = [train EXCEPT !.phase = "steps", !.step = 0,
                              !.epsilon = train.current_epsilon,
                              !.episode_reward = 0]
    /\ state' = initial_state
    /\ last_pos' = None
    /\ UNCHANGED <<config, generators, alpha, chosen, learned, Q, call,
                   rollout, pipeline, weights, solver>>

\* Lines 105-114: one iteration of the inner loop.
TrainStep ==
    /\ train.phase = "steps"
    /\ train.step < MaxTrainSteps
    /\ \E c \in {choose_action(bfs_cache, state, last_pos, rnd, pick) :
                    rnd \in ExploreDraws, pick \in 1 .. Len(actions)} :
        \E r \in Outcomes(state, c.action, FALSE) :
            \E l \in {learn(c.cache, state, c.action, r.reward, r.next_state,
                            last_pos)} :
                /\ chosen' = [called |-> TRUE, state |-> state,
                              last_pos |-> last_pos, action |-> c.action,
                              explored |-> c.explored]
                /\ call' = CallOf(state, c.action, FALSE, r)
                /\ learned' = [called |-> TRUE, episode |-> train.episode,
                               step |-> train.step, state |-> state,
                               action |-> c.action, reward |-> r.reward,
                               next_state |-> r.next_state,
                               last_pos |-> last_pos,
                               weights_before |-> weights,
                               prediction |-> l.prediction,
                               target |-> l.target,
                               features |-> l.features]
                /\ weights' = l.weights
                /\ bfs_cache' = l.cache
                /\ feat' = [called |-> TRUE, action |-> c.action,
                            last_pos |-> last_pos, features |-> l.features]
                /\ last_pos' = next_last_pos(state, r.next_state)
                /\ state' = r.next_state
                /\ train' = [train EXCEPT
                                !.step = train.step + 1,
                                !.episode_reward =
                                    train.episode_reward + r.reward,
                                !.phase =
                                    IF is_terminal(r.next_state)
                                       \/ train.step + 1 >= MaxTrainSteps
                                    THEN "ended" ELSE "steps"]
    /\ UNCHANGED <<config, generators, alpha, Q, rollout, query, solver>>

\* Lines 117-118: the episode has ended and epsilon decays.
EndEpisode ==
    /\ train.phase = "ended"
    /\ train' = [train EXCEPT !.phase = "episode",
                              !.episode = train.episode + 1,
                              !.current_epsilon =
                                  decayed(train.current_epsilon)]
    /\ UNCHANGED <<config, generators, alpha, chosen, learned, Q, state,
                   last_pos, call, rollout, pipeline, weights, solver>>

\* Line 129 and simulate_path, lines 63-68: the rollout starts.
StartSimulate ==
    /\ train.phase = "episode"
    /\ train.episode >= MaxEpisodes
    /\ train' = [train EXCEPT !.phase = "simulate"]
    /\ state' = initial_state
    /\ last_pos' = None
    /\ total_reward' = 0
    /\ path' = <<<<initial_state, "Start", 0>>>>
    /\ UNCHANGED <<config, generators, alpha, chosen, learned, Q, call,
                   returned, pipeline, weights, solver>>

NextTrain ==
    \/ StartEpisode
    \/ TrainStep
    \/ EndEpisode
    \/ StartSimulate
    \/ SimulateStep
    \/ SimulateReturn

SpecTrain == InitTrain /\ [][NextTrain]_vars

(***************************************************************************)
(* Claims about the training loop.                                         *)
(***************************************************************************)
\* The inner loop of main has just run one iteration.
TrainStepTaken == train.phase = "steps" /\ train'.step = train.step + 1

\* predict(s, a, lp) under the weights of the current state, whatever the
\* oracle has cached.
Predict(s, a, lp) == get_q_value(<<>>, s, a, lp).value

Features(s, a, lp) == get_features(<<>>, s, a, lp).features

MaxPredict(s, lp) ==
    CHOOSE m \in {Predict(s, a, lp) : a \in Actions} :
        \A a \in Actions : Predict(s, a, lp) <= m

Target(s, reward, next_state) ==
    IF is_terminal(next_state) THEN reward
    ELSE reward + discounted(MaxPredict(next_state, s[1]))

\* C21: learn(state, action, reward, next_state, last_pos) adds
\* alpha * (target - predict(state, action, last_pos)) *
\* features(state, action, last_pos) to the weights, where target is reward
\* if next_state is terminal and otherwise reward + gamma * the maximum over
\* the actions a of predict(next_state, a, p), p being the position of the
\* current state, not last_pos and not the position of next_state.
C21_ApproximateTDUpdate ==
    [][TrainStepTaken =>
          LET action == call'.action
              difference == Target(state, call'.reward, state')
                            - Predict(state, action, last_pos)
          IN  weights' =
                  [i \in DOMAIN weights |->
                      weights[i]
                      + scaled_by_alpha(difference)
                        * Features(state, action, last_pos)[i]]]_vars

\* learn has bootstrapped from a next state that is neither where the agent
\* is nor where it was, under weights that tell a reversal from other moves,
\* and has moved the weights.
C21_Witness ==
    /\ learned.called
    /\ ~is_terminal(learned.next_state)
    /\ learned.last_pos # None
    /\ learned.last_pos # learned.state[1]
    /\ learned.next_state[1] # learned.state[1]
    /\ learned.weights_before[5] # 0
    /\ learned.target # learned.reward
    /\ weights # learned.weights_before

\* learn has taken the reward alone as the target, the next state being
\* terminal, under weights that are not all zero.
C21_WitnessTerminal ==
    /\ learned.called
    /\ is_terminal(learned.next_state)
    /\ learned.weights_before # zeros
    /\ learned.target = learned.reward
    /\ weights # learned.weights_before

\* Feature i has been 0.0 in the sample of the most recent learn call, if
\* there has been one.
ZeroInSample(i) == learned.called => learned.features[i] = 0

\* C30: learn leaves weights[i] as it is for every feature i that is 0 for
\* (state, action, last_pos); nothing but learn changes the weights, neither
\* the choice of an action nor the rollout; so a weight whose feature is 0 in
\* every sample learned from is 0 throughout.
C30_WeightUpdateFrame ==
    /\ [][/\ TrainStepTaken =>
                 \A i \in DOMAIN weights :
                     Features(state, call'.action, last_pos)[i] = 0
                         => weights'[i] = weights[i]
          /\ TrainStepTaken => learned'.weights_before = weights
          /\ ~TrainStepTaken => weights' = weights]_vars
    /\ \A i \in 1 .. 5 : ([]ZeroInSample(i)) => [](weights[i] = 0)

\* learn has moved a weight and left alone the weight of a feature that is
\* 0.0 in the sample.
C30_Witness ==
    /\ learned.called
    /\ \E i, j \in DOMAIN weights :
           /\ learned.features[i] = 0
           /\ weights[i] = learned.weights_before[i]
           /\ weights[j] # learned.weights_before[j]

\* The rollout has run to its end after a training that moved some weights
\* and never the one of the collection feature.
C30_WitnessRollout ==
    /\ returned
    /\ Len(path) > 1
    /\ weights # zeros
    /\ weights[4] = 0

\* simulate_path has just run one iteration of its loop.
RolloutStepTaken == path # <<>> /\ Len(path') = Len(path) + 1

\* C27: at the first step of every episode, and of every rollout, the
\* previous position passed to choose_action, learn and get_best_action is
\* None; at every later step it is the position of the state the agent was
\* in one step earlier in the same episode or rollout; it is never carried
\* over from the preceding episode.
C27_PreviousPositionTracking ==
    [][/\ TrainStepTaken =>
              /\ chosen'.state = state
              /\ learned'.state = state
              /\ chosen'.last_pos = learned'.last_pos
              /\ IF train.step = 0
                 THEN learned'.last_pos = None
                 ELSE /\ learned.called
                      /\ learned.episode = train.episode
                      /\ learned.step = train.step - 1
                      /\ learned.next_state = state
                      /\ learned'.last_pos = learned.state[1]
       /\ RolloutStepTaken =>
              /\ path[Len(path)][1] = state
              /\ IF Len(path) = 1
                 THEN feat'.last_pos = None
                 ELSE feat'.last_pos = path[Len(path) - 1][1][1]]_vars

\* The second step of the second episode has passed on the position the
\* agent left in the first step.
C27_Witness ==
    /\ learned.called
    /\ learned.episode = 1
    /\ learned.step = 1
    /\ learned.last_pos # None
    /\ learned.last_pos # learned.state[1]
    /\ chosen.last_pos = learned.last_pos

\* The first step of the second episode has been given None, the first
\* episode having left a position in last_pos.
C27_WitnessNewEpisode ==
    /\ learned.called
    /\ learned.episode = 1
    /\ learned.step = 0
    /\ learned.last_pos = None
    /\ call.called
    /\ call.state = initial_state

\* The rollout after the training has passed on a position in its third
\* iteration.
C27_WitnessRollout ==
    /\ train.phase = "simulate"
    /\ Len(path) > 3
    /\ feat.last_pos # None
    /\ feat.last_pos = path[Len(path) - 2][1][1]
    /\ feat.last_pos # path[Len(path) - 1][1][1]

(***************************************************************************)
(* QLearningAgent (q_learning_agent.py): the Q-table and learn, called     *)
(* with any state and action, any next state step can return for them and  *)
(* any reward step ever returns.  The table has a row for every state of   *)
(* self.mdp.states.  Q-values are integers; alpha and gamma are in tenths,  *)
(* products rounded as above.                                              *)
(***************************************************************************)
\* Line 21: the table of __init__.
initial_Q == [s \in States |-> [a \in Actions |-> 0]]

\* Variant: the bootstrap term of a terminal next state is its row's
\* maximum as well.
max_q_next_of_any(q, next_state) ==
    CHOOSE m \in {q[next_state][a] : a \in Actions} :
        \A a \in Actions : q[next_state][a] <= m

\* Lines 34-37.
max_q_next(q, next_state) ==
    IF is_terminal(next_state) THEN 0
    ELSE CHOOSE m \in {q[next_state][a] : a \in Actions} :
             \A a \in Actions : q[next_state][a] <= m

\* Lines 32-40: new_q_value.
new_q_value(q, s, action, reward, next_state) ==
    LET old_q_value == q[s][action]
        temporal_difference ==
            reward + discounted(max_q_next(q, next_state)) - old_q_value
    IN  old_q_value + scaled_by_alpha(temporal_difference)

\* Variant: the whole row of the state gets the new value.
q_learn_whole_row(q, s, action, reward, next_state) ==
    [q EXCEPT ![s] = [a \in Actions |->
                         new_q_value(q, s, action, reward, next_state)]]

\* learn (lines 30-42): the table afterwards.
q_learn(q, s, action, reward, next_state) ==
    [q EXCEPT ![s][action] = new_q_value(q, s, action, reward, next_state)]

\* The rewards step returns (mdp_environment.py, lines 48 and 90-98).
Rewards == {StuckPenalty, StepCost, 0, CollectReward, TerminalBonus}

\* The agent on the 2x2 grids without obstacles and with one goal;
\* train.step counts the learn calls, at most MaxLearns of them.
InitTabular ==
    /\ GeneratedConfig
    /\ grid_size = 2
    /\ obstacles = {}
    /\ num_boxes = 1
    /\ intended_action_prob = 10
    /\ state = initial_state
    /\ last_pos = None
    /\ call = NoCall
    /\ total_reward = 0
    /\ path = <<>>
    /\ bfs_cache = <<>>
    /\ query = NoQuery
    /\ feat = NoFeatures
    /\ weights = zeros
    /\ returned = FALSE
    /\ NoSolver
    /\ placement = NoPlacement
    /\ alpha \in Alphas
    /\ train = [NoTraining EXCEPT !.phase = "tabular"]
    /\ chosen = NoChoice
    /\ learned = NoLearn
    /\ Q = initial_Q

\* One call of learn.
Learn ==
    /\ train.phase = "tabular"
    /\ train.step < MaxLearns
    /\ \E s \in States, action \in Actions :
        \E r \in Outcomes(s, action, FALSE), reward \in Rewards :
            /\ Q' = q_learn(Q, s, action, reward, r.next_state)
            /\ learned' = [called |-> TRUE, state |-> s, action |-> action,
                           reward |-> reward, next_state |-> r.next_state]
            /\ train' = [train EXCEPT !.step = train.step + 1]
    /\ UNCHANGED <<config, generators, alpha, chosen, state, last_pos, call,
                   rollout, pipeline, weights, solver>>

NextTabular == Learn

SpecTabular == InitTabular /\ [][NextTabular]_vars

\* The maximum of the row of state s in the table.
RowMax(s) ==
    CHOOSE m \in {Q[s][a] : a \in Actions} : \A a \in Actions : Q[s][a] <= m

\* C22: learn(state, action, reward, next_state) sets Q[state][action] to
\* its old value plus alpha * (reward + gamma * m - old value), m being 0
\* when next_state is terminal and otherwise the maximum of Q[next_state]
\* over the actions; every other entry of the table stays as it is.
C22_TabularTDUpdate ==
    [][train'.step = train.step + 1 =>
          LET s == learned'.state
              a == learned'.action
              m == IF is_terminal(learned'.next_state) THEN 0
                   ELSE RowMax(learned'.next_state)
          IN  /\ Q'[s][a] =
                     Q[s][a]
                     + scaled_by_alpha(learned'.reward + discounted(m)
                                       - Q[s][a])
              /\ DOMAIN Q' = DOMAIN Q
              /\ \A s2 \in DOMAIN Q :
                     /\ DOMAIN Q'[s2] = DOMAIN Q[s2]
                     /\ \A a2 \in DOMAIN Q[s2] :
                            <<s2, a2>> # <<s, a>> => Q'[s2][a2] = Q[s2][a2]]_vars

\* learn has bootstrapped from a row with a positive maximum and has moved
\* its entry, the other entries of the row being as they were initially.
C22_Witness ==
    /\ learned.called
    /\ train.step = 2
    /\ ~is_terminal(learned.next_state)
    /\ RowMax(learned.next_state) > 0
    /\ learned.reward + discounted(RowMax(learned.next_state)) # learned.reward
    /\ learned.state # learned.next_state
    /\ Q[learned.state][learned.action] # 0
    /\ \E a \in Actions : Q[learned.state][a] = 0

\* learn has taken no bootstrap from a terminal next state whose row is not
\* all zero.
C22_WitnessTerminal ==
    /\ learned.called
    /\ is_terminal(learned.next_state)
    /\ \E a \in Actions : Q[learned.next_state][a] # 0
    /\ learned.state # learned.next_state

====
